---------------------------- MODULE Spec2Model ----------------------------
(***************************************************************************)
(* Inter-board discovery, addressing and messaging protocol of the         *)
(* Fracture chainable keyboard firmware (Firmware/Fracture_Keyboard.ino).  *)
(*                                                                         *)
(* SpecFrame models the packet transport alone: one sender writing frames  *)
(* with rs485SendPacket and one receiver running processRs485 byte by byte.*)
(* SpecStream models the same receiver reading frames cut short, oversize   *)
(* frames and stray bytes.  SpecRegistry models the node registry of one   *)
(* board under calls of registerNode and discovery runs.  SpecHandlers     *)
(* models one board of a converged chain handling PING_REPLY and NOTE      *)
(* frames and local note events.  SpecChain models a chain of boards       *)
(* running setup, startDiscovery and loop on a shared bus, in steps of one *)
(* millisecond.                                                            *)
(***************************************************************************)
EXTENDS Integers, Sequences, FiniteSets, TLC

VARIABLES
    \* ---- packet transport (SpecFrame) ----
    wire,        \* bytes written to the bus that the receiver has not read yet
    prx,         \* the receiver's RxState
    sent,        \* history: the frames written, in order
    dispatched,  \* history: the frames handed to a handler, in order
    consumed,    \* history: number of bytes the receiver has read
    \* ---- chain of boards (SpecChain) ----
    bd,          \* per board: the firmware's globals, its position in the code
                 \* and the milliseconds left of the delay() it is in
    rxq,         \* per board: bytes in the UART receive buffer
    right,       \* per board: level of PIN_NEIGHBOR_RIGHT as the neighbor sees it
    busNext,     \* frames written to the bus during the current millisecond
    env          \* what the environment has done so far, and the skew it
                 \* started the boards with

frameVars == <<wire, prx, sent, dispatched, consumed>>

chainVars == <<bd, rxq, right, busNext, env>>

vars == <<wire, prx, sent, dispatched, consumed,
          bd, rxq, right, busNext, env>>

-----------------------------------------------------------------------------
(* Bytes and 8-bit arithmetic *)

Byte == 0..255

Pow2(n) == IF n = 0 THEN 1 ELSE IF n = 1 THEN 2 ELSE IF n = 2 THEN 4
           ELSE IF n = 3 THEN 8 ELSE IF n = 4 THEN 16 ELSE IF n = 5 THEN 32
           ELSE IF n = 6 THEN 64 ELSE 128

XorBit(a, b, i) == ((((a \div Pow2(i)) % 2) + ((b \div Pow2(i)) % 2)) % 2) * Pow2(i)

(* a ^ b on uint8_t *)
Xor(a, b) ==
    XorBit(a, b, 0) + XorBit(a, b, 1) + XorBit(a, b, 2) + XorBit(a, b, 3)
    + XorBit(a, b, 4) + XorBit(a, b, 5) + XorBit(a, b, 6) + XorBit(a, b, 7)

RECURSIVE XorAll(_)
XorAll(s) == IF s = <<>> THEN 0 ELSE Xor(Head(s), XorAll(Tail(s)))

-----------------------------------------------------------------------------
(* Program constants *)

START_BYTE == 170                 \* 0xAA
RX_BUF_SIZE == 32                 \* sizeof(rx.buf)
RS485_MAX_NODES == 16
RS485_ANNOUNCE_MSG == 1
RS485_NOTE_MSG == 2
RS485_PING_MSG == 3
RS485_PING_REPLY_MSG == 4
RS485_REMAP_REQUEST_MSG == 5
UNASSIGNED == 255                 \* 0xFF, myBoardIndex before assignment

MsgTypes == { RS485_ANNOUNCE_MSG, RS485_NOTE_MSG, RS485_PING_MSG,
              RS485_PING_REPLY_MSG, RS485_REMAP_REQUEST_MSG }

-----------------------------------------------------------------------------
(* Bounds of the transport model *)

MaxPayloadLen == 2                \* longest payload the sender is given
PayloadBytes == {0, START_BYTE}   \* payload byte values the sender is given

RECURSIVE SeqsUpTo(_, _)
SeqsUpTo(S, n) ==
    IF n = 0 THEN { <<>> }
    ELSE LET shorter == SeqsUpTo(S, n - 1)
         IN  shorter \cup { Append(s, x) : s \in { t \in shorter : Len(t) = n - 1 }, x \in S }

Payloads == SeqsUpTo(PayloadBytes, MaxPayloadLen)

-----------------------------------------------------------------------------
(* rs485SendPacket: the bytes written for (type, payload, len) *)

FrameChecksum(type, payload) == Xor(Xor(type, Len(payload)), XorAll(payload))

rs485SendPacket(type, payload) ==
    <<START_BYTE, Len(payload), type>> \o payload \o <<FrameChecksum(type, payload)>>

(* struct RxState as default-constructed; buf holds the bytes stored since *)
(* the cursor was last reset (buf[0..pos-1]).                              *)
RxInit == [state |-> 0, len |-> 0, type |-> 0, buf |-> <<>>, pos |-> 0, checksum |-> 0]

(* One iteration of the while loop of processRs485 on byte b.  The result  *)
(* is the new RxState and the frame handed to the handler chain, if any.   *)
NoFrame == <<>>

RxByte(r, b) ==
    CASE r.state = 0 ->
            IF b = START_BYTE
            THEN [rx |-> [r EXCEPT !.state = 1, !.checksum = 0], frame |-> NoFrame]
            ELSE [rx |-> r, frame |-> NoFrame]
      [] r.state = 1 ->
            [rx |-> [r EXCEPT !.len = b, !.pos = 0, !.buf = <<>>, !.state = 2],
             frame |-> NoFrame]
      [] r.state = 2 ->
            [rx |-> [r EXCEPT !.type = b, !.checksum = Xor(b, r.len), !.state = 3],
             frame |-> NoFrame]
      [] r.state = 3 ->
            LET stored == IF r.pos < RX_BUF_SIZE
                          THEN [r EXCEPT !.buf = Append(r.buf, b),
                                         !.pos = r.pos + 1,
                                         !.checksum = Xor(r.checksum, b)]
                          ELSE r
            IN  [rx |-> IF stored.pos >= stored.len
                        THEN [stored EXCEPT !.state = 4]
                        ELSE stored,
                 frame |-> NoFrame]
      [] OTHER ->
            [rx |-> [r EXCEPT !.state = 0],
             frame |-> IF r.checksum = b /\ r.type \in MsgTypes
                       THEN << [type |-> r.type, len |-> r.len, buf |-> r.buf] >>
                       ELSE NoFrame]

-----------------------------------------------------------------------------
(* SpecFrame: a sender and a receiver on a quiet bus *)

SentRec(type, payload, good) == [type |-> type, payload |-> payload, good |-> good]

FrameBytes(f) == Len(f.payload) + 4

(* A quiet bus and a receiver as constructed; SpecFrame has no boards. *)
FrameInit ==
    /\ wire = <<>>
    /\ prx = RxInit
    /\ sent = <<>>
    /\ dispatched = <<>>
    /\ consumed = 0
    /\ bd = <<>>
    /\ rxq = <<>>
    /\ right = <<>>
    /\ busNext = <<>>
    /\ env = <<>>

(* The sender writes a well-formed frame once the receiver has drained the *)
(* previous one; at most two frames are written.                           *)
FrSend ==
    /\ Len(sent) < 2
    /\ wire = <<>>
    /\ \E type \in MsgTypes, payload \in Payloads :
          /\ wire' = rs485SendPacket(type, payload)
          /\ sent' = Append(sent, SentRec(type, payload, TRUE))
    /\ UNCHANGED <<prx, dispatched, consumed, chainVars>>

(* The first frame reaches the receiver with one bit of its checksum byte  *)
(* flipped.                                                                *)
FrSendFlipped ==
    /\ sent = <<>>
    /\ wire = <<>>
    /\ \E type \in MsgTypes, payload \in Payloads, bit \in 0..7 :
          LET f == rs485SendPacket(type, payload)
              n == Len(f)
          IN  /\ wire' = [f EXCEPT ![n] = Xor(f[n], Pow2(bit))]
              /\ sent' = Append(sent, SentRec(type, payload, FALSE))
    /\ UNCHANGED <<prx, dispatched, consumed, chainVars>>

(* One byte read by processRs485. *)
FrRecv ==
    /\ wire # <<>>
    /\ LET r == RxByte(prx, Head(wire))
       IN  /\ prx' = r.rx
           /\ dispatched' = dispatched \o r.frame
    /\ wire' = Tail(wire)
    /\ consumed' = consumed + 1
    /\ UNCHANGED <<sent, chainVars>>

FrameNext == FrSend \/ FrSendFlipped \/ FrRecv

SpecFrame == FrameInit /\ [][FrameNext]_vars

-----------------------------------------------------------------------------
(* SpecStream: a receiver reading what arrives on the bus when not every   *)
(* sender is a well-behaved board: well-formed frames, frames cut short,   *)
(* frames declaring more payload than rx.buf holds, and single stray       *)
(* bytes.  sent records what was written: its kind, the frame it was built *)
(* from and the number n of bytes that reached the bus.                    *)

MaxItems == 2                     \* items written to the bus
StrayBytes == {0, START_BYTE}     \* values of a stray byte
OverLen == RX_BUF_SIZE + 1        \* LENGTH declared by an oversize frame

Item(kind, type, payload, n) ==
    [kind |-> kind, type |-> type, payload |-> payload, n |-> n]

(* A well-formed frame. *)
StrSendFrame ==
    /\ Len(sent) < MaxItems
    /\ wire = <<>>
    /\ \E type \in MsgTypes, payload \in Payloads :
          LET f == rs485SendPacket(type, payload)
          IN  /\ wire' = f
              /\ sent' = Append(sent, Item("frame", type, payload, Len(f)))
    /\ UNCHANGED <<prx, dispatched, consumed, chainVars>>

(* The first n bytes of a well-formed frame, n less than its length. *)
StrSendCut ==
    /\ sent = <<>>
    /\ wire = <<>>
    /\ \E type \in MsgTypes, payload \in Payloads :
          LET f == rs485SendPacket(type, payload)
          IN  \E n \in 1..(Len(f) - 1) :
                /\ wire' = SubSeq(f, 1, n)
                /\ sent' = Append(sent, Item("cut", type, payload, n))
    /\ UNCHANGED <<prx, dispatched, consumed, chainVars>>

(* A frame whose LENGTH byte is larger than sizeof(rx.buf), complete with  *)
(* its payload and checksum.                                               *)
StrSendOversize ==
    /\ sent = <<>>
    /\ wire = <<>>
    /\ \E type \in MsgTypes, fill \in PayloadBytes :
          LET payload == [i \in 1..OverLen |-> fill]
              \* the XOR of OverLen copies of fill
              folded == IF OverLen % 2 = 1 THEN fill ELSE 0
              f == <<START_BYTE, OverLen, type>> \o payload
                      \o <<Xor(Xor(type, OverLen), folded)>>
          IN  /\ wire' = f
              /\ sent' = Append(sent, Item("over", type, payload, Len(f)))
    /\ UNCHANGED <<prx, dispatched, consumed, chainVars>>

(* One byte that belongs to no frame. *)
StrSendStray ==
    /\ Len(sent) < MaxItems
    /\ wire = <<>>
    /\ \E b \in StrayBytes :
          /\ wire' = <<b>>
          /\ sent' = Append(sent, Item("stray", 0, <<b>>, 1))
    /\ UNCHANGED <<prx, dispatched, consumed, chainVars>>

StreamNext ==
    \/ StrSendFrame
    \/ StrSendCut
    \/ StrSendOversize
    \/ StrSendStray
    \/ FrRecv

SpecStream == FrameInit /\ [][StreamNext]_vars

-----------------------------------------------------------------------------
(* The firmware of one board.  A board's state s is a record of the        *)
(* firmware's globals (source names kept), plus                            *)
(*   pc, wake      where the board is in setup/startDiscovery/loop and the *)
(*                 milliseconds left of the delay() it is sitting in,      *)
(*   sinceTStart, sincePingStart, sinceLastPing                            *)
(*                 millis() - tStart, millis() - pingStartMs and           *)
(*                 millis() - lastPingMs, saturating above the values the  *)
(*                 code compares them with,                                *)
(*   pinRight      the level the board drives on PIN_NEIGHBOR_RIGHT,       *)
(*   out           the frames written by rs485SendPacket in this step,     *)
(*   runs, ev      history: discovery runs started (saturating), and the   *)
(*                 outcome of a reply-window evaluation made this ms,      *)
(*   replied       history: the identities whose PING_REPLY carrying the   *)
(*                 current sequence was delivered since the last sendPing, *)
(*   runAge        history: the milliseconds since tStart of the board's   *)
(*                 latest run, saturating at the discovery budget,         *)
(*   stalePing     history: a discovery run has started since the last     *)
(*                 sendPing, while its ping cycle was awaiting replies,    *)
(*   pulsed        history: the left neighbor has started a wake pulse     *)
(*                 since the board entered its latest discovery run,       *)
(*   cb            history: the note callbacks invoked by the last call of *)
(*                 a note handler.                                         *)
(* In SpecChain no key is pressed: there is no note traffic.                *)
(***************************************************************************)

DISCOVERY_MAX_MS == 1000
DISCOVERY_SETTLE_MS == 100        \* (millis() - tStart) > 100
PING_INTERVAL_MS == 1000
PING_TIMEOUT_MS == 200
GLOBAL_BASE_NOTE == 48
BOARD_NOTE_SPAN == 24
SENSE_DELAY_MS == 5               \* delay(5) before sampling the left neighbor
RELEASE_DELAY_MS == 2             \* delay(2) after releasing the right output
PULSE_MS == 3                     \* pulseRightNeighbor: delay(3)
POLL_DELAY_MS == 1                \* delay(1) in the discovery wait loop
LOOP_DELAY_MS == 2                \* delay(2) at the end of loop()

HIGH == 1
LOW == 0

(* setup(): calibrateKeys (32 keys, 16 samples, delay(1) each),            *)
(* showAllLedsStartup (delay(200)) and playStartupJingle.                  *)
AfterPingInitMs == 200 + (6 * 120 + 250 + 7 * 20)
SetupDelayMs == 32 * 16 * 1 + AfterPingInitMs

(* Bounds *)
MaxBoards == 4                    \* boards that can be in the chain
MaxSkew == 3                      \* ms by which one board enters startDiscovery late
LateSkew == 120                   \* or, when it is later than that, this many ms
MaxPings == 2                     \* ping cycles a root starts
MaxRuns == 3                      \* discovery runs counted per board
EventWindow == 1                  \* ms after convergence in which a board may fail or join

Boards == 1..MaxBoards

(* myNodeId = readRandom32(): distinct identities, fixed per board. *)
NodeIdOf(b) == 1000 * b + 7

IdBytes(id) == << id % 256, (id \div 256) % 256,
                  (id \div 65536) % 256, (id \div 16777216) % 256 >>

IdFrom(p) == p[1] + 256 * p[2] + 65536 * p[3] + 16777216 * p[4]

Min(a, b) == IF a < b THEN a ELSE b

BoardInit(b) ==
    [ pc |-> "off", wake |-> 0,
      myNodeId |-> NodeIdOf(b),
      nodeList |-> <<>>,
      myBoardIndex |-> 0,
      totalBoards |-> 1,
      discoveryDone |-> FALSE,
      remapRequested |-> FALSE,
      isRemapping |-> FALSE,
      networkHealthy |-> FALSE,
      boardBaseNote |-> GLOBAL_BASE_NOTE,
      hasLeftNeighbor |-> FALSE,
      rx |-> RxInit,
      pingSequence |-> 0,
      awaitingPingReplies |-> FALSE,
      pingReceived |-> {},
      replied |-> {},
      stalePing |-> FALSE,
      pulsed |-> FALSE,
      cb |-> <<>>,
      sinceTStart |-> 0,
      sincePingStart |-> 0,
      sinceLastPing |-> 0,
      runAge |-> DISCOVERY_MAX_MS,
      leftPrev |-> HIGH,
      fromRemap |-> FALSE,
      pinRight |-> HIGH,
      out |-> <<>>,
      runs |-> 0,
      fellBack |-> FALSE,
      ev |-> "none" ]

Send(s, type, payload) ==
    [s EXCEPT !.out = Append(s.out, rs485SendPacket(type, payload))]

(* Index of the first registry entry holding nodeId, 0 when there is none. *)
FindNode(nodeList, nodeId) ==
    LET hits == { i \in 1..Len(nodeList) : nodeList[i].nodeId = nodeId }
    IN  IF hits = {} THEN 0 ELSE CHOOSE i \in hits : \A j \in hits : i <= j

(* registerNode without the search for an existing entry *)
registerNode_NoLookup(s, nodeId, boardIndex) ==
    LET added == Len(s.nodeList) < RS485_MAX_NODES
        nl == IF added
              THEN Append(s.nodeList, [nodeId |-> nodeId, boardIndex |-> boardIndex])
              ELSE s.nodeList
        s1 == [s EXCEPT !.nodeList = nl]
    IN  IF s.discoveryDone /\ added /\ s.myBoardIndex = 0
        THEN [Send(s1, RS485_REMAP_REQUEST_MSG, <<>>)
                EXCEPT !.remapRequested = TRUE, !.networkHealthy = FALSE]
        ELSE s1

(* registerNode without the capacity test *)
registerNode_NoCapacity(s, nodeId, boardIndex) ==
    LET i == FindNode(s.nodeList, nodeId)
        found == i # 0
        added == ~found
        nl == IF found THEN [s.nodeList EXCEPT ![i].boardIndex = boardIndex]
              ELSE Append(s.nodeList, [nodeId |-> nodeId, boardIndex |-> boardIndex])
        s1 == [s EXCEPT !.nodeList = nl]
    IN  IF s.discoveryDone /\ added /\ s.myBoardIndex = 0
        THEN [Send(s1, RS485_REMAP_REQUEST_MSG, <<>>)
                EXCEPT !.remapRequested = TRUE, !.networkHealthy = FALSE]
        ELSE s1

(* registerNode without the test that this board is at position 0 *)
registerNode_AnyBoard(s, nodeId, boardIndex) ==
    LET i == FindNode(s.nodeList, nodeId)
        found == i # 0
        added == ~found /\ Len(s.nodeList) < RS485_MAX_NODES
        nl == IF found THEN [s.nodeList EXCEPT ![i].boardIndex = boardIndex]
              ELSE IF added
                   THEN Append(s.nodeList, [nodeId |-> nodeId, boardIndex |-> boardIndex])
                   ELSE s.nodeList
        s1 == [s EXCEPT !.nodeList = nl]
    IN  IF s.discoveryDone /\ added
        THEN [Send(s1, RS485_REMAP_REQUEST_MSG, <<>>)
                EXCEPT !.remapRequested = TRUE, !.networkHealthy = FALSE]
        ELSE s1

registerNode(s, nodeId, boardIndex) ==
    LET i == FindNode(s.nodeList, nodeId)
        found == i # 0
        added == ~found /\ Len(s.nodeList) < RS485_MAX_NODES
        nl == IF found THEN [s.nodeList EXCEPT ![i].boardIndex = boardIndex]
              ELSE IF added
                   THEN Append(s.nodeList, [nodeId |-> nodeId, boardIndex |-> boardIndex])
                   ELSE s.nodeList
        s1 == [s EXCEPT !.nodeList = nl]
    IN  IF s.discoveryDone /\ added /\ s.myBoardIndex = 0
        THEN [Send(s1, RS485_REMAP_REQUEST_MSG, <<>>)
                EXCEPT !.remapRequested = TRUE, !.networkHealthy = FALSE]
        ELSE s1

handleAnnouncePacket(s, payload, len) ==
    IF len # 5 THEN s
    ELSE registerNode(s, IdFrom(payload), payload[5])

(* The note callbacks: LED, MIDI and audio are left out, the call is       *)
(* recorded.  onLocalNoteOn and onLocalNoteOff end in broadcastNoteEvent.  *)
NoteCall(fn, note, velocity) == [fn |-> fn, note |-> note, velocity |-> velocity]

onRemoteNoteOn(s, note, velocity) ==
    [s EXCEPT !.cb = Append(s.cb, NoteCall("onRemoteNoteOn", note, velocity))]

onRemoteNoteOff(s, note) ==
    [s EXCEPT !.cb = Append(s.cb, NoteCall("onRemoteNoteOff", note, 0))]

broadcastNoteEvent(s, note, velocity, on) ==
    Send(s, RS485_NOTE_MSG,
         IdBytes(s.myNodeId) \o <<note, velocity, IF on THEN 1 ELSE 0>>)

onLocalNoteOn(s, note, velocity) ==
    broadcastNoteEvent([s EXCEPT !.cb = Append(s.cb, NoteCall("onLocalNoteOn", note, velocity))],
                       note, velocity, TRUE)

onLocalNoteOff(s, note) ==
    broadcastNoteEvent([s EXCEPT !.cb = Append(s.cb, NoteCall("onLocalNoteOff", note, 0))],
                       note, 0, FALSE)

(* handleNotePacket without the test for the board's own identity *)
handleNotePacket_Echo(s, payload, len) ==
    IF len # 7 THEN s
    ELSE IF payload[7] # 0
         THEN onRemoteNoteOn(s, payload[5], payload[6])
         ELSE onRemoteNoteOff(s, payload[5])

handleNotePacket(s, payload, len) ==
    IF len # 7 THEN s
    ELSE IF IdFrom(payload) = s.myNodeId THEN s
    ELSE IF payload[7] # 0
         THEN onRemoteNoteOn(s, payload[5], payload[6])
         ELSE onRemoteNoteOff(s, payload[5])

handlePingPacket(s, payload, len) ==
    IF len # 1 THEN s
    ELSE Send(s, RS485_PING_REPLY_MSG, IdBytes(s.myNodeId) \o <<payload[1]>>)

(* handlePingReplyPacket without the test of awaitingPingReplies *)
handlePingReplyPacket_NoAwaitTest(s, payload, len) ==
    IF len # 5 THEN s
    ELSE IF payload[5] # s.pingSequence THEN s
    ELSE LET i == FindNode(s.nodeList, IdFrom(payload))
         IN  IF i = 0 THEN s
             ELSE [s EXCEPT !.pingReceived = s.pingReceived \cup {i}]

(* handlePingReplyPacket with the sequence test inverted *)
handlePingReplyPacket_SeqInverted(s, payload, len) ==
    IF len # 5 THEN s
    ELSE IF ~s.awaitingPingReplies THEN s
    ELSE IF payload[5] = s.pingSequence THEN s
    ELSE LET i == FindNode(s.nodeList, IdFrom(payload))
         IN  IF i = 0 THEN s
             ELSE [s EXCEPT !.pingReceived = s.pingReceived \cup {i}]

handlePingReplyPacket(s, payload, len) ==
    IF len # 5 THEN s
    ELSE IF ~s.awaitingPingReplies THEN s
    ELSE IF payload[5] # s.pingSequence THEN s
    ELSE LET i == FindNode(s.nodeList, IdFrom(payload))
         IN  IF i = 0 THEN s
             ELSE [s EXCEPT !.pingReceived = s.pingReceived \cup {i}]

handleRemapRequestPacket(s, payload, len) ==
    [s EXCEPT !.remapRequested = TRUE, !.networkHealthy = FALSE]

(* The handler chain of processRs485 case 4. *)
Dispatch(s, f) ==
    CASE f.type = RS485_ANNOUNCE_MSG -> handleAnnouncePacket(s, f.buf, f.len)
      [] f.type = RS485_NOTE_MSG -> handleNotePacket(s, f.buf, f.len)
      [] f.type = RS485_PING_MSG -> handlePingPacket(s, f.buf, f.len)
      [] f.type = RS485_PING_REPLY_MSG -> handlePingReplyPacket(s, f.buf, f.len)
      [] f.type = RS485_REMAP_REQUEST_MSG -> handleRemapRequestPacket(s, f.buf, f.len)
      [] OTHER -> s

(* One iteration of the while loop of processRs485: the byte b is read and *)
(* a completed frame is handed to its handler.                             *)
processRs485(s, b) ==
    LET r == RxByte(s.rx, b)
        s1 == [s EXCEPT !.rx = r.rx]
    IN  IF r.frame = NoFrame THEN s1 ELSE Dispatch(s1, r.frame[1])

sendIdAnnounce(s, boardIndex) ==
    registerNode(Send(s, RS485_ANNOUNCE_MSG, IdBytes(s.myNodeId) \o <<boardIndex>>),
                 s.myNodeId, boardIndex)

(* sendPing without the assignment to awaitingPingReplies *)
sendPing_NoAwait(s) ==
    LET seq == (s.pingSequence + 1) % 256
        me == FindNode(s.nodeList, s.myNodeId)
        s1 == Send([s EXCEPT !.pingSequence = seq], RS485_PING_MSG, <<seq>>)
    IN  [s1 EXCEPT !.pingReceived = IF me = 0 THEN {} ELSE {me},
                   !.sincePingStart = 0,
                   !.stalePing = FALSE,
                   !.replied = {}]

sendPing(s) ==
    LET seq == (s.pingSequence + 1) % 256
        me == FindNode(s.nodeList, s.myNodeId)
        s1 == Send([s EXCEPT !.pingSequence = seq], RS485_PING_MSG, <<seq>>)
    IN  [s1 EXCEPT !.pingReceived = IF me = 0 THEN {} ELSE {me},
                   !.awaitingPingReplies = TRUE,
                   !.sincePingStart = 0,
                   !.stalePing = FALSE,
                   !.replied = {}]

(* Highest position among start and the registry entries other than 0xFF. *)
MaxIndex(nodeList, start) ==
    LET idxs == { nodeList[i].boardIndex : i \in 1..Len(nodeList) } \ {UNASSIGNED}
        all == idxs \cup {start}
    IN  CHOOSE m \in all : \A x \in all : x <= m

(* NextIndex without the increment *)
NextIndex_NoIncrement(nodeList) == MaxIndex(nodeList, 0)

(* uint8_t newIdx = maxIdx + 1 *)
NextIndex(nodeList) == (MaxIndex(nodeList, 0) + 1) % 256

-----------------------------------------------------------------------------
(* startDiscovery and loop, cut at their delay() calls.  Each operator     *)
(* maps the board's state (and the inputs it samples) to its state at the  *)
(* next delay.  left is the level read on PIN_NEIGHBOR_LEFT, bytes the     *)
(* content of the UART receive buffer, which processRs485 reads byte by    *)
(* byte until it is empty.                                                 *)

(* SettleBreak without the settle time *)
SettleBreak_NoSettle(s) == s.myBoardIndex # UNASSIGNED

(* if (myBoardIndex != 0xFF && (millis() - tStart) > 100) break; *)
SettleBreak(s) == s.myBoardIndex # UNASSIGNED /\ s.sinceTStart > DISCOVERY_SETTLE_MS

(* DiscEnterStep without the assignment to isRemapping *)
DiscEnterStep_NoRemapFlag(s) ==
    [s EXCEPT !.discoveryDone = FALSE,
              !.networkHealthy = FALSE,
              !.myBoardIndex = UNASSIGNED,
              !.nodeList = <<>>,
              !.pinRight = LOW,
              !.runs = Min(s.runs + 1, MaxRuns),
              !.fellBack = FALSE,
              !.stalePing = s.stalePing \/ s.awaitingPingReplies,
              !.pulsed = FALSE,
              !.pc = "sense", !.wake = SENSE_DELAY_MS]

(* startDiscovery up to delay(5) *)
DiscEnterStep(s) ==
    [s EXCEPT !.discoveryDone = FALSE,
              !.isRemapping = TRUE,
              !.networkHealthy = FALSE,
              !.myBoardIndex = UNASSIGNED,
              !.nodeList = <<>>,
              !.pinRight = LOW,
              !.runs = Min(s.runs + 1, MaxRuns),
              !.fellBack = FALSE,
              !.stalePing = s.stalePing \/ s.awaitingPingReplies,
              !.pulsed = FALSE,
              !.pc = "sense", !.wake = SENSE_DELAY_MS]

(* end of setup(): the initial startDiscovery(false) *)
SetupStep(s) ==
    DiscEnterStep([s EXCEPT !.nodeList = <<>>,
                            !.awaitingPingReplies = FALSE,
                            !.sinceLastPing = Min(AfterPingInitMs, PING_INTERVAL_MS + 1),
                            !.fromRemap = FALSE])

(* sample the left neighbor, release the right output, delay(2) *)
DiscSenseStep(s, left) ==
    [s EXCEPT !.hasLeftNeighbor = (left = LOW),
              !.pinRight = HIGH,
              !.pc = "start", !.wake = RELEASE_DELAY_MS]

(* tStart = millis(); the root assigns itself, announces and starts its    *)
(* pulse; a downstream board takes its first sample of the left input.     *)
DiscStartStep(s, left) ==
    LET s0 == [s EXCEPT !.sinceTStart = 0, !.runAge = 0]
    IN  IF ~s.hasLeftNeighbor
        THEN [sendIdAnnounce([s0 EXCEPT !.myBoardIndex = 0], 0)
                EXCEPT !.pinRight = LOW, !.pc = "rootpulse", !.wake = PULSE_MS]
        ELSE [s0 EXCEPT !.leftPrev = left, !.pc = "poll", !.wake = 0]

(* end of the root's pulse, then leftPrev = digitalRead(LEFT) *)
DiscRootPulseEndStep(s, left) ==
    [s EXCEPT !.pinRight = HIGH, !.leftPrev = left, !.pc = "poll", !.wake = 0]

(* DiscPollStep without the test that the board is unassigned *)
DiscPollStep_NoAssignedTest(s, left) ==
    IF s.leftPrev = HIGH /\ left = LOW
    THEN LET newIdx == NextIndex(s.nodeList)
         IN  [sendIdAnnounce([s EXCEPT !.myBoardIndex = newIdx], newIdx)
                EXCEPT !.pinRight = LOW, !.pc = "dpulse", !.wake = PULSE_MS]
    ELSE LET s2 == [s EXCEPT !.leftPrev = left]
         IN  IF SettleBreak(s2)
             THEN [s2 EXCEPT !.pc = "finish", !.wake = 0]
             ELSE [s2 EXCEPT !.pc = "poll", !.wake = POLL_DELAY_MS]

(* one iteration of the wait loop after its processRs485 call, up to      *)
(* delay(1), the start of the pulse or the end of the loop                 *)
DiscPollStep(s, left) ==
    IF s.leftPrev = HIGH /\ left = LOW /\ s.myBoardIndex = UNASSIGNED
    THEN LET newIdx == NextIndex(s.nodeList)
         IN  [sendIdAnnounce([s EXCEPT !.myBoardIndex = newIdx], newIdx)
                EXCEPT !.pinRight = LOW, !.pc = "dpulse", !.wake = PULSE_MS]
    ELSE LET s2 == [s EXCEPT !.leftPrev = left]
         IN  IF SettleBreak(s2)
             THEN [s2 EXCEPT !.pc = "finish", !.wake = 0]
             ELSE [s2 EXCEPT !.pc = "poll", !.wake = POLL_DELAY_MS]

(* end of a downstream board's pulse; leftPrev = leftNow (LOW) *)
DiscPulseEndStep(s) ==
    LET s1 == [s EXCEPT !.pinRight = HIGH, !.leftPrev = LOW]
    IN  IF SettleBreak(s1)
        THEN [s1 EXCEPT !.pc = "finish", !.wake = 0]
        ELSE [s1 EXCEPT !.pc = "poll", !.wake = POLL_DELAY_MS]

(* DiscFinishStep without the fallback to position 0 *)
DiscFinishStep_NoFallback(s) ==
    LET maxIdx == MaxIndex(s.nodeList,
                           IF s.myBoardIndex = UNASSIGNED THEN 0 ELSE s.myBoardIndex)
        idx == IF s.myBoardIndex = UNASSIGNED THEN 0 ELSE s.myBoardIndex
    IN  [s EXCEPT !.totalBoards = (maxIdx + 1) % 256,
                  !.fellBack = (s.myBoardIndex = UNASSIGNED),
                  !.boardBaseNote = (GLOBAL_BASE_NOTE + idx * BOARD_NOTE_SPAN) % 256,
                  !.discoveryDone = TRUE,
                  !.isRemapping = FALSE,
                  !.networkHealthy = TRUE,
                  !.sinceTStart = 0,
                  !.leftPrev = HIGH,
                  !.pc = IF s.fromRemap THEN "loopbody" ELSE "loop",
                  !.wake = 0]

(* DiscFinishStep counting the board's own position only *)
DiscFinishStep_OwnOnly(s) ==
    LET idx == IF s.myBoardIndex = UNASSIGNED THEN 0 ELSE s.myBoardIndex
    IN  [s EXCEPT !.totalBoards = (idx + 1) % 256,
                  !.myBoardIndex = idx,
                  !.fellBack = (s.myBoardIndex = UNASSIGNED),
                  !.boardBaseNote = (GLOBAL_BASE_NOTE + idx * BOARD_NOTE_SPAN) % 256,
                  !.discoveryDone = TRUE,
                  !.isRemapping = FALSE,
                  !.networkHealthy = TRUE,
                  !.sinceTStart = 0,
                  !.leftPrev = HIGH,
                  !.pc = IF s.fromRemap THEN "loopbody" ELSE "loop",
                  !.wake = 0]

(* after the wait loop: board count, fallback, note base, Done *)
DiscFinishStep(s) ==
    LET maxIdx == MaxIndex(s.nodeList,
                           IF s.myBoardIndex = UNASSIGNED THEN 0 ELSE s.myBoardIndex)
        idx == IF s.myBoardIndex = UNASSIGNED THEN 0 ELSE s.myBoardIndex
    IN  [s EXCEPT !.totalBoards = (maxIdx + 1) % 256,
                  !.myBoardIndex = idx,
                  !.fellBack = (s.myBoardIndex = UNASSIGNED),
                  !.boardBaseNote = (GLOBAL_BASE_NOTE + idx * BOARD_NOTE_SPAN) % 256,
                  !.discoveryDone = TRUE,
                  !.isRemapping = FALSE,
                  !.networkHealthy = TRUE,
                  !.sinceTStart = 0,
                  !.leftPrev = HIGH,
                  !.pc = IF s.fromRemap THEN "loopbody" ELSE "loop",
                  !.wake = 0]

(* EvaluateReplies without the assignment to remapRequested *)
EvaluateReplies_NoFlag(s) ==
    LET missing == \E i \in 1..Len(s.nodeList) : i \notin s.pingReceived
        s1 == [s EXCEPT !.awaitingPingReplies = FALSE, !.sincePingStart = 0]
    IN  IF missing
        THEN [Send([s1 EXCEPT !.networkHealthy = FALSE], RS485_REMAP_REQUEST_MSG, <<>>)
                EXCEPT !.ev = "missing"]
        ELSE [s1 EXCEPT !.networkHealthy = TRUE, !.ev = "healthy"]

(* loop(): the evaluation of the reply window once it has expired *)
EvaluateReplies(s) ==
    LET missing == \E i \in 1..Len(s.nodeList) : i \notin s.pingReceived
        s1 == [s EXCEPT !.awaitingPingReplies = FALSE, !.sincePingStart = 0]
    IN  IF missing
        THEN [Send([s1 EXCEPT !.networkHealthy = FALSE], RS485_REMAP_REQUEST_MSG, <<>>)
                EXCEPT !.remapRequested = TRUE, !.ev = "missing"]
        ELSE [s1 EXCEPT !.networkHealthy = TRUE, !.ev = "healthy"]

(* PingSection without the test of totalBoards *)
PingSection_NoCountTest(s) ==
    IF s.myBoardIndex = 0
    THEN IF ~s.awaitingPingReplies /\ s.sinceLastPing > PING_INTERVAL_MS
            /\ s.pingSequence < MaxPings
         THEN [sendPing(s) EXCEPT !.sinceLastPing = 0]
         ELSE IF s.awaitingPingReplies /\ s.sincePingStart > PING_TIMEOUT_MS
         THEN EvaluateReplies(s)
         ELSE s
    ELSE s

(* loop(): the health monitor; a root starts at most MaxPings ping cycles *)
PingSection(s) ==
    IF s.myBoardIndex = 0 /\ s.totalBoards > 1
    THEN IF ~s.awaitingPingReplies /\ s.sinceLastPing > PING_INTERVAL_MS
            /\ s.pingSequence < MaxPings
         THEN [sendPing(s) EXCEPT !.sinceLastPing = 0]
         ELSE IF s.awaitingPingReplies /\ s.sincePingStart > PING_TIMEOUT_MS
         THEN EvaluateReplies(s)
         ELSE s
    ELSE s

(* loop() after its processRs485 call, to delay(2) *)
LoopBodyStep(s) ==
    [PingSection(s) EXCEPT !.pc = "loop", !.wake = LOOP_DELAY_MS]

(* loop() from its top: a pending remap starts a discovery run *)
LoopTopRemap(s) ==
    DiscEnterStep([s EXCEPT !.remapRequested = FALSE, !.fromRemap = TRUE])

-----------------------------------------------------------------------------
(* SpecChain: the boards of a chain, the shared bus and the neighbor       *)
(* wires, in steps of one millisecond.  Every board whose delay has run    *)
(* out takes its step; what a board writes to its right output or to the   *)
(* bus during a millisecond is seen by the others from the next one on.    *)

Running(b) == bd[b].pc \notin {"off", "dead"}
Ready(b) == Running(b) /\ bd[b].wake = 0
Turn(b) == Ready(b) /\ \A c \in Boards : c < b => ~Ready(c)

(* PIN_NEIGHBOR_LEFT of board b: the pull-up, or the left neighbor's output *)
Left(b) == IF b = 1 THEN HIGH ELSE right[b - 1]

Commit(b, s) ==
    /\ bd' = [bd EXCEPT ![b] = [s EXCEPT !.out = <<>>]]
    /\ busNext' = busNext \o [i \in 1..Len(s.out) |-> [from |-> b, frame |-> s.out[i]]]
    /\ UNCHANGED <<right, env>>
    /\ UNCHANGED frameVars

Setup(b) ==
    /\ Turn(b) /\ bd[b].pc = "setup"
    /\ Commit(b, SetupStep(bd[b]))
    /\ UNCHANGED rxq

DiscSense(b) ==
    /\ Turn(b) /\ bd[b].pc = "sense"
    /\ Commit(b, DiscSenseStep(bd[b], Left(b)))
    /\ UNCHANGED rxq

DiscStart(b) ==
    /\ Turn(b) /\ bd[b].pc = "start"
    /\ Commit(b, DiscStartStep(bd[b], Left(b)))
    /\ UNCHANGED rxq

DiscRootPulseEnd(b) ==
    /\ Turn(b) /\ bd[b].pc = "rootpulse"
    /\ Commit(b, DiscRootPulseEndStep(bd[b], Left(b)))
    /\ UNCHANGED rxq

(* The board is in processRs485, called from the discovery wait loop or    *)
(* from loop(), and a byte is available.                                   *)
InProcessRs485(b) ==
    \/ bd[b].pc = "poll" /\ bd[b].sinceTStart < DISCOVERY_MAX_MS
    \/ bd[b].pc = "loop" /\ ~bd[b].remapRequested
    \/ bd[b].pc = "loopbody"

Rs485Byte(b) ==
    /\ Turn(b) /\ InProcessRs485(b)
    /\ rxq[b] # <<>>
    /\ LET s == processRs485(bd[b], Head(rxq[b]))
       IN  Commit(b, [s EXCEPT !.pc = IF s.pc = "loop" THEN "loopbody" ELSE s.pc])
    /\ rxq' = [rxq EXCEPT ![b] = Tail(rxq[b])]

DiscPoll(b) ==
    /\ Turn(b) /\ bd[b].pc = "poll"
    /\ bd[b].sinceTStart < DISCOVERY_MAX_MS
    /\ rxq[b] = <<>>
    /\ Commit(b, DiscPollStep(bd[b], Left(b)))
    /\ UNCHANGED rxq

DiscBudgetExpired(b) ==
    /\ Turn(b) /\ bd[b].pc = "poll"
    /\ ~(bd[b].sinceTStart < DISCOVERY_MAX_MS)
    /\ Commit(b, [bd[b] EXCEPT !.pc = "finish"])
    /\ UNCHANGED rxq

DiscPulseEnd(b) ==
    /\ Turn(b) /\ bd[b].pc = "dpulse"
    /\ Commit(b, DiscPulseEndStep(bd[b]))
    /\ UNCHANGED rxq

DiscFinish(b) ==
    /\ Turn(b) /\ bd[b].pc = "finish"
    /\ Commit(b, DiscFinishStep(bd[b]))
    /\ UNCHANGED rxq

LoopRemap(b) ==
    /\ Turn(b) /\ bd[b].pc = "loop"
    /\ bd[b].remapRequested
    /\ Commit(b, LoopTopRemap(bd[b]))
    /\ UNCHANGED rxq

LoopBody(b) ==
    /\ Turn(b)
    /\ \/ bd[b].pc = "loop" /\ ~bd[b].remapRequested
       \/ bd[b].pc = "loopbody"
    /\ rxq[b] = <<>>
    /\ Commit(b, LoopBodyStep(bd[b]))
    /\ UNCHANGED rxq

RECURSIVE BusBytes(_, _)
BusBytes(frames, b) ==
    IF frames = <<>> THEN <<>>
    ELSE (IF Head(frames).from = b THEN <<>> ELSE Head(frames).frame)
            \o BusBytes(Tail(frames), b)

OnBoards == { b \in Boards : bd[b].pc # "off" }

(* Every board present has completed discovery and holds its place in the  *)
(* chain as its position.                                                  *)
Converged ==
    \A b \in OnBoards :
        /\ bd[b].pc = "loop"
        /\ bd[b].discoveryDone
        /\ ~bd[b].remapRequested
        /\ bd[b].myBoardIndex = b - 1
        /\ bd[b].totalBoards = Cardinality(OnBoards)

IsPingReply(f, seq) ==
    Len(f) = 9 /\ f[2] = 5 /\ f[3] = RS485_PING_REPLY_MSG /\ f[8] = seq

(* Identities whose reply to board b's current ping is on the bus. *)
RepliesTo(b) ==
    IF ~bd[b].awaitingPingReplies THEN {}
    ELSE { IdFrom(SubSeq(busNext[i].frame, 4, 7)) :
             i \in { j \in 1..Len(busNext) :
                       /\ busNext[j].from # b
                       /\ IsPingReply(busNext[j].frame, bd[b].pingSequence) } }

(* The left neighbor of board b has started its wake pulse during the      *)
(* current millisecond, and b is in a discovery run.                       *)
PulseStarted(b) ==
    /\ b > 1
    /\ bd[b].pc \in {"sense", "start", "poll"}
    /\ bd[b - 1].pc \in {"rootpulse", "dpulse"}
    /\ bd[b - 1].wake = PULSE_MS

(* One millisecond passes. *)
Tick ==
    /\ \A b \in Boards : ~Ready(b)
    /\ bd' = [b \in Boards |->
                IF ~Running(b) THEN bd[b]
                ELSE [bd[b] EXCEPT
                        !.wake = bd[b].wake - 1,
                        !.sinceTStart =
                            IF bd[b].pc \in {"poll", "dpulse", "rootpulse"}
                            THEN Min(bd[b].sinceTStart + 1, DISCOVERY_MAX_MS)
                            ELSE bd[b].sinceTStart,
                        !.sincePingStart =
                            IF bd[b].awaitingPingReplies
                            THEN Min(bd[b].sincePingStart + 1, PING_TIMEOUT_MS + 1)
                            ELSE bd[b].sincePingStart,
                        !.sinceLastPing = Min(bd[b].sinceLastPing + 1, PING_INTERVAL_MS + 1),
                        !.runAge = Min(bd[b].runAge + 1, DISCOVERY_MAX_MS),
                        !.replied = bd[b].replied \cup RepliesTo(b),
                        !.pulsed = bd[b].pulsed \/ PulseStarted(b),
                        !.ev = "none"]]
    /\ right' = [b \in Boards |-> bd[b].pinRight]
    /\ rxq' = [b \in Boards |->
                IF bd[b].pc \in {"off", "dead"} THEN rxq[b]
                ELSE rxq[b] \o BusBytes(busNext, b)]
    /\ busNext' = <<>>
    /\ env' = [env EXCEPT !.quiet = IF Converged
                                    THEN Min(env.quiet + 1, EventWindow + 1)
                                    ELSE 0]
    /\ UNCHANGED frameVars

EventAllowed ==
    /\ \A b \in Boards : ~Ready(b)
    /\ Converged
    /\ env.quiet <= EventWindow
    /\ ~env.died /\ ~env.joined

(* A board other than the root stops running. *)
Die(b) ==
    /\ EventAllowed
    /\ b # 1 /\ Running(b)
    /\ bd' = [bd EXCEPT ![b].pc = "dead"]
    /\ env' = [env EXCEPT !.died = TRUE]
    /\ UNCHANGED <<rxq, right, busNext>>
    /\ UNCHANGED frameVars

(* A board is attached at the right end of the chain and powers on. *)
Join(b) ==
    /\ EventAllowed
    /\ bd[b].pc = "off"
    /\ \A c \in Boards : c < b => bd[c].pc # "off"
    /\ bd' = [bd EXCEPT ![b].pc = "setup", ![b].wake = SetupDelayMs]
    /\ env' = [env EXCEPT !.joined = TRUE]
    /\ UNCHANGED <<rxq, right, busNext>>
    /\ UNCHANGED frameVars

IsRemapFrame(f) == Len(f) = 4 /\ f[2] = 0 /\ f[3] = RS485_REMAP_REQUEST_MSG

(* The receivers read one spurious 0x00 byte as the sender of a            *)
(* REMAP_REQUEST releases the bus.                                         *)
Glitch ==
    /\ \A b \in Boards : ~Ready(b)
    /\ ~env.glitched
    /\ busNext # <<>> /\ IsRemapFrame(busNext[Len(busNext)].frame)
    /\ busNext' = Append(busNext, [from |-> 0, frame |-> <<0>>])
    /\ env' = [env EXCEPT !.glitched = TRUE]
    /\ UNCHANGED <<bd, rxq, right>>
    /\ UNCHANGED frameVars

SkewValues == (0..MaxSkew) \cup {LateSkew}

ChainInit ==
    /\ \E k \in Boards :
       \E off \in [1..k -> SkewValues] :
          /\ \E late \in 1..k : \A b \in 1..k : b # late => off[b] = 0
          /\ bd = [b \in Boards |->
                     IF b <= k
                     THEN [BoardInit(b) EXCEPT !.pc = "setup", !.wake = off[b]]
                     ELSE BoardInit(b)]
          /\ env = [died |-> FALSE, joined |-> FALSE, glitched |-> FALSE,
                    quiet |-> 0, skew |-> off[CHOOSE b \in 1..k : \A c \in 1..k : off[c] <= off[b]]]
    /\ rxq = [b \in Boards |-> <<>>]
    /\ right = [b \in Boards |-> HIGH]
    /\ busNext = <<>>
    /\ wire = <<>>
    /\ prx = RxInit
    /\ sent = <<>>
    /\ dispatched = <<>>
    /\ consumed = 0

BoardStep(b) ==
    \/ Setup(b)
    \/ DiscSense(b)
    \/ DiscStart(b)
    \/ DiscRootPulseEnd(b)
    \/ Rs485Byte(b)
    \/ DiscPoll(b)
    \/ DiscBudgetExpired(b)
    \/ DiscPulseEnd(b)
    \/ DiscFinish(b)
    \/ LoopRemap(b)
    \/ LoopBody(b)

ChainNext ==
    \/ \E b \in Boards : BoardStep(b)
    \/ Tick
    \/ \E b \in Boards : Die(b)
    \/ \E b \in Boards : Join(b)
    \/ Glitch

SpecChain == ChainInit /\ [][ChainNext]_vars

-----------------------------------------------------------------------------
(* SpecRegistry: the node registry of one board.  The board starts as      *)
(* board me of a converged chain of k boards; registerNode is then called  *)
(* with identities and positions drawn from small sets, as by              *)
(* handleAnnouncePacket, and discovery runs are started, assigned and      *)
(* finished.  bd[1] is the board; env is the log of the registerNode calls *)
(* made: the arguments, the board before the call and at its return.       *)

MaxCalls == 2                     \* registerNode calls logged

(* Sizes of the chain the board starts in *)
RegChains == {1, RS485_MAX_NODES - 1, RS485_MAX_NODES}

(* Identities and positions registerNode is called with *)
RegIds == { NodeIdOf(1), NodeIdOf(2),
            NodeIdOf(RS485_MAX_NODES + 1), NodeIdOf(RS485_MAX_NODES + 2) }
RegPositions == {0, RS485_MAX_NODES - 2}

(* The registry of a board of a converged chain of k boards *)
ChainRegistry(k) == [i \in 1..k |-> [nodeId |-> NodeIdOf(i), boardIndex |-> i - 1]]

ConvergedBoard(k, me) ==
    [BoardInit(me) EXCEPT !.pc = "loop",
                          !.nodeList = ChainRegistry(k),
                          !.myBoardIndex = me - 1,
                          !.totalBoards = k,
                          !.discoveryDone = TRUE,
                          !.networkHealthy = TRUE,
                          !.boardBaseNote = (GLOBAL_BASE_NOTE + (me - 1) * BOARD_NOTE_SPAN) % 256,
                          !.hasLeftNeighbor = (me > 1),
                          !.runs = 1]

RegCallRec(nodeId, boardIndex, pre, post) ==
    [nodeId |-> nodeId, boardIndex |-> boardIndex, pre |-> pre, post |-> post]

RegInit ==
    /\ \E k \in RegChains, me \in {1, 2} :
          /\ me <= k
          /\ bd = << ConvergedBoard(k, me) >>
    /\ env = <<>>
    /\ rxq = <<>>
    /\ right = <<>>
    /\ busNext = <<>>
    /\ wire = <<>>
    /\ prx = RxInit
    /\ sent = <<>>
    /\ dispatched = <<>>
    /\ consumed = 0

RegCommit(s) ==
    /\ bd' = << [s EXCEPT !.out = <<>>] >>
    /\ UNCHANGED <<rxq, right, busNext>>
    /\ UNCHANGED frameVars

(* registerNode(otherId, otherIdx), as called by handleAnnouncePacket *)
RegCall ==
    /\ Len(env) < MaxCalls
    /\ \E nodeId \in RegIds, boardIndex \in RegPositions :
          LET post == registerNode(bd[1], nodeId, boardIndex)
          IN  /\ RegCommit(post)
              /\ env' = Append(env, RegCallRec(nodeId, boardIndex, bd[1], post))

(* loop(): a discovery run is started *)
RegEnter ==
    /\ bd[1].discoveryDone
    /\ bd[1].runs < MaxRuns
    /\ RegCommit(DiscEnterStep(bd[1]))
    /\ UNCHANGED env

(* startDiscovery: the board takes its position, as root or on the pulse   *)
(* of its left neighbor, and announces it; sendIdAnnounce registers the    *)
(* board itself.                                                           *)
RegAssign ==
    /\ ~bd[1].discoveryDone
    /\ bd[1].myBoardIndex = UNASSIGNED
    /\ Len(env) < MaxCalls
    /\ \E isRoot \in BOOLEAN :
          LET idx == IF isRoot THEN 0 ELSE NextIndex(bd[1].nodeList)
              pre == Send([bd[1] EXCEPT !.myBoardIndex = idx], RS485_ANNOUNCE_MSG,
                          IdBytes(bd[1].myNodeId) \o <<idx>>)
              post == sendIdAnnounce([bd[1] EXCEPT !.myBoardIndex = idx], idx)
          IN  /\ RegCommit(post)
              /\ env' = Append(env, RegCallRec(bd[1].myNodeId, idx, pre, post))

(* startDiscovery: the end of the run *)
RegFinish ==
    /\ ~bd[1].discoveryDone
    /\ RegCommit(DiscFinishStep(bd[1]))
    /\ UNCHANGED env

RegNext == RegCall \/ RegEnter \/ RegAssign \/ RegFinish

SpecRegistry == RegInit /\ [][RegNext]_vars

-----------------------------------------------------------------------------
(* SpecHandlers: the frame handlers and the note events of one board.  The *)
(* board starts as board me of a converged chain, with a ping cycle idle   *)
(* or awaiting replies; processRs485 hands PING_REPLY and NOTE frames to   *)
(* their handlers and local note events arrive from the key scanner.       *)
(* bd[1] is the board; env is the log of the calls made: the arguments,    *)
(* the board before the call and at its return.                            *)

MaxHandlerCalls == 2              \* calls logged

(* The boards of the chain *)
HBoards == {1, 2}

(* Identities frames arrive from: the boards of the chain and a stranger *)
HIds == { NodeIdOf(b) : b \in HBoards } \cup { NodeIdOf(RS485_MAX_NODES + 1) }

(* Values of pingSequence, and sequences carried by replies *)
HSeqs == {0, 1, 255}

(* Notes, velocities and on flags carried by NOTE frames *)
HNotes == {GLOBAL_BASE_NOTE + 12}
HVels == {0, 100}
HOnFlags == {0, 1, 2}

(* keyToNote offsets of the keys pressed, and their velocities; the key    *)
(* scanner replaces a velocity of 0 by 1.                                  *)
HKeyOffsets == {12}
HKeyVels == {1, 100}

HCallRec(op, id, seq, note, velocity, on, pre, post) ==
    [op |-> op, id |-> id, seq |-> seq, note |-> note, velocity |-> velocity,
     on |-> on, pre |-> pre, post |-> post]

(* The frame processRs485 hands to the handler chain once it has read the  *)
(* bytes rs485SendPacket writes for a payload that is not empty.           *)
HFrame(type, payload) == [type |-> type, len |-> Len(payload), buf |-> payload]

HandlersInit ==
    /\ \E me \in HBoards, awaiting \in BOOLEAN, seq \in HSeqs, recv \in SUBSET HBoards :
          /\ awaiting => (me = 1 /\ me \in recv)
          /\ bd = << [ConvergedBoard(Cardinality(HBoards), me) EXCEPT
                         !.awaitingPingReplies = awaiting,
                         !.pingSequence = seq,
                         !.pingReceived = recv] >>
    /\ env = <<>>
    /\ rxq = <<>>
    /\ right = <<>>
    /\ busNext = <<>>
    /\ wire = <<>>
    /\ prx = RxInit
    /\ sent = <<>>
    /\ dispatched = <<>>
    /\ consumed = 0

HCommit(s) ==
    /\ bd' = << [s EXCEPT !.out = <<>>, !.cb = <<>>] >>
    /\ UNCHANGED <<rxq, right, busNext>>
    /\ UNCHANGED frameVars

(* loop(): the root starts a ping cycle *)
HSendPing ==
    /\ Len(env) < MaxHandlerCalls
    /\ bd[1].myBoardIndex = 0
    /\ ~bd[1].awaitingPingReplies
    /\ LET post == sendPing(bd[1])
       IN  /\ HCommit(post)
           /\ env' = Append(env, HCallRec("sendPing", bd[1].myNodeId, post.pingSequence,
                                          0, 0, 0, bd[1], post))

(* A PING_REPLY frame is received *)
HRecvPingReply ==
    /\ Len(env) < MaxHandlerCalls
    /\ \E id \in HIds, seq \in HSeqs :
          LET post == Dispatch(bd[1], HFrame(RS485_PING_REPLY_MSG, IdBytes(id) \o <<seq>>))
          IN  /\ HCommit(post)
              /\ env' = Append(env, HCallRec("pingReply", id, seq, 0, 0, 0, bd[1], post))

(* The key scanner reports a key pressed *)
HLocalNoteOn ==
    /\ Len(env) < MaxHandlerCalls
    /\ \E k \in HKeyOffsets, velocity \in HKeyVels :
          LET note == (bd[1].boardBaseNote + k) % 256
              post == onLocalNoteOn(bd[1], note, velocity)
          IN  /\ HCommit(post)
              /\ env' = Append(env, HCallRec("localNoteOn", bd[1].myNodeId, 0,
                                             note, velocity, 1, bd[1], post))

(* The key scanner reports a key released *)
HLocalNoteOff ==
    /\ Len(env) < MaxHandlerCalls
    /\ \E k \in HKeyOffsets :
          LET note == (bd[1].boardBaseNote + k) % 256
              post == onLocalNoteOff(bd[1], note)
          IN  /\ HCommit(post)
              /\ env' = Append(env, HCallRec("localNoteOff", bd[1].myNodeId, 0,
                                             note, 0, 0, bd[1], post))

(* A NOTE frame is received *)
HRecvNote ==
    /\ Len(env) < MaxHandlerCalls
    /\ \E id \in HIds, note \in HNotes, velocity \in HVels, on \in HOnFlags :
          LET post == Dispatch(bd[1], HFrame(RS485_NOTE_MSG,
                                             IdBytes(id) \o <<note, velocity, on>>))
          IN  /\ HCommit(post)
              /\ env' = Append(env, HCallRec("note", id, 0, note, velocity, on,
                                             bd[1], post))

HandlersNext ==
    HSendPing \/ HRecvPingReply \/ HLocalNoteOn \/ HLocalNoteOff \/ HRecvNote

SpecHandlers == HandlersInit /\ [][HandlersNext]_vars

-----------------------------------------------------------------------------
(* Transport claims *)

DispatchOf(f) == [type |-> f.type, len |-> Len(f.payload), buf |-> f.payload]

(* C1: Framing round-trip.  Once the receiver, starting in the             *)
(* START-seeking state, has read exactly the bytes rs485SendPacket wrote   *)
(* for a frame (any type, any payload, the empty one included), it has     *)
(* dispatched exactly that frame and is back in the START-seeking state.   *)
C1_FramingRoundTrip ==
    (Len(sent) >= 1 /\ sent[1].good /\ consumed = FrameBytes(sent[1]))
        => (prx.state = 0 /\ dispatched = << DispatchOf(sent[1]) >>)

(* The same round trip for the payloads that are not empty. *)
RoundTripNonEmpty ==
    (Len(sent) >= 1 /\ sent[1].good /\ Len(sent[1].payload) >= 1
        /\ consumed = FrameBytes(sent[1]))
        => (prx.state = 0 /\ dispatched = << DispatchOf(sent[1]) >>)

(* C2: Checksum rejection.  A frame whose checksum byte has one bit        *)
(* flipped invokes no handler and leaves the parser START-seeking once its *)
(* bytes are read, and the well-formed frame that follows is dispatched.   *)
C2_ChecksumRejection ==
    (Len(sent) >= 1 /\ ~sent[1].good)
        => /\ consumed = FrameBytes(sent[1])
                => (prx.state = 0 /\ dispatched = <<>>)
           /\ (Len(sent) = 2 /\ consumed = FrameBytes(sent[1]) + FrameBytes(sent[2]))
                => (prx.state = 0 /\ dispatched = << DispatchOf(sent[2]) >>)

(* The same rejection when neither frame has an empty payload. *)
ChecksumRejectionNonEmpty ==
    (Len(sent) >= 1 /\ ~sent[1].good /\ Len(sent[1].payload) >= 1)
        => /\ consumed = FrameBytes(sent[1])
                => (prx.state = 0 /\ dispatched = <<>>)
           /\ (Len(sent) = 2 /\ Len(sent[2].payload) >= 1
                 /\ consumed = FrameBytes(sent[1]) + FrameBytes(sent[2]))
                => (prx.state = 0 /\ dispatched = << DispatchOf(sent[2]) >>)

(* C12: Only checksum-valid frames are dispatched.  Whatever bytes arrive, *)
(* a handler is invoked only by the CHECKSUM byte of a sequence START,     *)
(* LENGTH, TYPE, LENGTH payload bytes, CHECKSUM whose CHECKSUM is the XOR  *)
(* of TYPE, LENGTH and the payload bytes (LENGTH = 0 included): at that    *)
(* byte the parser has read exactly LENGTH payload bytes and the byte      *)
(* equals the checksum of the frame.                                       *)
C12_OnlyValidDispatched ==
    [][dispatched' # dispatched =>
          /\ prx.state = 4
          /\ Len(prx.buf) = prx.len
          /\ Head(wire) = FrameChecksum(prx.type, prx.buf)]_vars

(* The same for the sequences that declare a LENGTH of 1 or more. *)
OnlyValidDispatchedNonEmpty ==
    [][(dispatched' # dispatched /\ prx.len >= 1) =>
          /\ prx.state = 4
          /\ Len(prx.buf) = prx.len
          /\ Head(wire) = FrameChecksum(prx.type, prx.buf)]_vars

(* The bytes of the first two items have been read. *)
ReadTwo == Len(sent) = 2 /\ consumed = sent[1].n + sent[2].n

(* C17: Truncated-frame recovery.  A frame cut short on the bus invokes no *)
(* handler, and the well-formed frame that follows it is dispatched, the   *)
(* parser being START-seeking after it.                                    *)
C17_TruncatedRecovery ==
    (Len(sent) >= 1 /\ sent[1].kind = "cut") =>
        /\ consumed <= sent[1].n => dispatched = <<>>
        /\ (ReadTwo /\ sent[2].kind = "frame")
              => (prx.state = 0 /\ dispatched = << DispatchOf(sent[2]) >>)

(* The same when neither the frame cut short nor the frame that follows    *)
(* has an empty payload.                                                   *)
TruncatedRecoveryNonEmpty ==
    (Len(sent) >= 1 /\ sent[1].kind = "cut" /\ Len(sent[1].payload) >= 1) =>
        /\ consumed <= sent[1].n => dispatched = <<>>
        /\ (ReadTwo /\ sent[2].kind = "frame" /\ Len(sent[2].payload) >= 1)
              => (prx.state = 0 /\ dispatched = << DispatchOf(sent[2]) >>)

(* C18: Capacity-overrun recovery.  Of a frame declaring a LENGTH larger   *)
(* than the 32-byte buffer no more than 32 payload bytes are stored, and   *)
(* the parser resets to the START-seeking state: the well-formed frame     *)
(* that follows is dispatched.                                             *)
C18_OverrunRecovery ==
    (Len(sent) >= 1 /\ sent[1].kind = "over") =>
        /\ Len(prx.buf) <= RX_BUF_SIZE
        /\ consumed = sent[1].n => prx.state = 0
        /\ (ReadTwo /\ sent[2].kind = "frame")
              => (prx.state = 0 /\ dispatched = << DispatchOf(sent[2]) >>)

(* After the header of an oversize frame the parser stays in the payload   *)
(* state, whatever is read, and stores no more than 32 bytes.              *)
OverrunNeverResets ==
    (Len(sent) >= 1 /\ sent[1].kind = "over" /\ consumed >= 3) =>
        (prx.state = 3 /\ dispatched = <<>> /\ Len(prx.buf) <= RX_BUF_SIZE)

-----------------------------------------------------------------------------
(* Chain claims *)

(* The identities held by a registry, and the entries holding one. *)
Ids(nodeList) == { nodeList[i].nodeId : i \in 1..Len(nodeList) }

EntriesOf(nodeList, nodeId) == { i \in 1..Len(nodeList) : nodeList[i].nodeId = nodeId }

Live == { b \in Boards : Running(b) }

NoEvent == ~env.died /\ ~env.joined /\ ~env.glitched

(* Board b has returned from startDiscovery. *)
RunComplete(b) == bd[b].discoveryDone /\ bd[b].pc \in {"loop", "loopbody"}

Positions(S) == { bd[b].myBoardIndex : b \in S }

Dense(S) ==
    /\ Positions(S) = 0..(Cardinality(S) - 1)
    /\ \A b, c \in S : b # c => bd[b].myBoardIndex # bd[c].myBoardIndex

(* Every board of the chain has completed its first run, none by fallback. *)
FirstRunComplete ==
    /\ NoEvent
    /\ OnBoards # {}
    /\ \A b \in OnBoards : RunComplete(b) /\ bd[b].runs = 1 /\ ~bd[b].fellBack

(* C3: Position density.  Once every board of a chain of K boards has      *)
(* completed a discovery run in which no board fell back to position 0,    *)
(* the positions of the K boards are exactly 0..K-1, without duplicates.   *)
C3_PositionDensity == FirstRunComplete => Dense(OnBoards)

(* The same for the chains whose boards entered discovery in the same      *)
(* millisecond.                                                            *)
PositionDensityNoSkew == (FirstRunComplete /\ env.skew = 0) => Dense(OnBoards)

(* C4: Remap idempotence.  A REMAP_REQUEST handled while a discovery run   *)
(* is in progress is coalesced into the run: whenever a board's run        *)
(* reaches Done, its pending-remap flag is clear, so that loop() starts no *)
(* second run for it.                                                      *)
C4_RemapCoalesced ==
    [][\A b \in Boards :
          (bd[b].pc = "finish" /\ bd'[b].discoveryDone) => ~bd'[b].remapRequested]_vars

(* The reply window of board b was evaluated in this millisecond. *)
Evaluated(b) == Running(b) /\ bd[b].ev # "none"

OthersRegistered(b) ==
    { bd[b].nodeList[i].nodeId : i \in 1..Len(bd[b].nodeList) } \ { bd[b].myNodeId }

AllReplied(b) == OthersRegistered(b) \subseteq bd[b].replied

RemapFramesFrom(b) ==
    { i \in 1..Len(busNext) : busNext[i].from = b /\ IsRemapFrame(busNext[i].frame) }

(* C5: Health convergence, healthy branch.  When the root evaluates its    *)
(* reply window and every other registered identity has delivered a        *)
(* PING_REPLY carrying the current sequence, networkHealthy is true, the   *)
(* root transmits no REMAP_REQUEST, its pending-remap flag is not set and  *)
(* the ping cycle is idle.                                                 *)
C5_HealthyBranch ==
    \A b \in Boards :
        (Evaluated(b) /\ AllReplied(b)) =>
            /\ bd[b].ev = "healthy"
            /\ bd[b].networkHealthy
            /\ RemapFramesFrom(b) = {}
            /\ ~bd[b].remapRequested
            /\ ~bd[b].awaitingPingReplies

C5_Witness ==
    \E b \in Boards :
        Evaluated(b) /\ AllReplied(b) /\ OthersRegistered(b) # {}

(* C6: Health convergence, failure branch.  When the root evaluates its    *)
(* reply window and some registered identity has not replied with the      *)
(* current sequence, networkHealthy is false, the root has transmitted     *)
(* exactly one REMAP_REQUEST, its pending-remap flag is set and the ping   *)
(* cycle is idle.                                                          *)
C6_FailureBranch ==
    \A b \in Boards :
        (Evaluated(b) /\ ~AllReplied(b)) =>
            /\ bd[b].ev = "missing"
            /\ ~bd[b].networkHealthy
            /\ Cardinality(RemapFramesFrom(b)) = 1
            /\ bd[b].remapRequested
            /\ ~bd[b].awaitingPingReplies

C6_Witness ==
    \E b \in Boards : Evaluated(b) /\ ~AllReplied(b) /\ env.died

(* Board b's parser has read the four bytes AA 00 05 05 of a               *)
(* REMAP_REQUEST frame, the first of them in the START-seeking state.      *)
RemapFrameRead(b) ==
    /\ Running(b)
    /\ bd[b].rx.state = 4
    /\ bd[b].rx.type = RS485_REMAP_REQUEST_MSG
    /\ bd[b].rx.len = 0
    /\ bd[b].rx.buf = <<FrameChecksum(RS485_REMAP_REQUEST_MSG, <<>>)>>

(* C7: REMAP_REQUEST propagation.  A board that has read the bytes of a    *)
(* broadcast REMAP_REQUEST frame, starting in the START-seeking state,     *)
(* has networkHealthy false and its pending-remap flag set.                *)
C7_RemapPropagation ==
    \A b \in Boards :
        RemapFrameRead(b) => (bd[b].remapRequested /\ ~bd[b].networkHealthy)

(* Three boards A-B-C that entered discovery together have completed it. *)
BootABC ==
    /\ OnBoards = {1, 2, 3}
    /\ env.skew = 0
    /\ FirstRunComplete

(* C8: Boot scenario.  Three boards A-B-C entering discovery together end  *)
(* the run with positions 0, 1, 2, totalBoards 3 on every board and note   *)
(* bases 48, 72, 96.                                                       *)
C8_BootScenario ==
    BootABC =>
        /\ bd[1].myBoardIndex = 0 /\ bd[2].myBoardIndex = 1 /\ bd[3].myBoardIndex = 2
        /\ \A b \in {1, 2, 3} : bd[b].totalBoards = 3
        /\ bd[1].boardBaseNote = 48 /\ bd[2].boardBaseNote = 72 /\ bd[3].boardBaseNote = 96

C8_Witness == BootABC /\ bd[3].hasLeftNeighbor

(* Nothing is pending anywhere: every board is in loop() with discovery    *)
(* done and no remap pending, no board runs ping cycles, and no byte is on *)
(* the bus or unread.  From here on no board transmits or changes a        *)
(* position.                                                               *)
Silent ==
    /\ busNext = <<>>
    /\ \A b \in Live :
        /\ bd[b].pc = "loop"
        /\ bd[b].discoveryDone
        /\ ~bd[b].remapRequested
        /\ ~(bd[b].myBoardIndex = 0 /\ bd[b].totalBoards > 1)
        /\ rxq[b] = <<>>

(* C9: Join scenario.  After D has joined the converged chain A-B-C and    *)
(* the network has come to rest, the four boards hold positions 0, 1, 2, 3 *)
(* from left to right.                                                     *)
C9_JoinScenario ==
    (env.joined /\ OnBoards = {1, 2, 3, 4} /\ Silent) =>
        \A b \in {1, 2, 3, 4} : bd[b].myBoardIndex = b - 1

(* C10: Node-loss recovery.  After a board other than the root has stopped *)
(* and the network has come to rest, every remaining board has re-run      *)
(* discovery, the remaining boards hold the positions 0..n-1 and report    *)
(* networkHealthy.                                                         *)
C10_NodeLossRecovery ==
    (env.died /\ Silent) =>
        /\ Dense(Live)
        /\ \A b \in Live : bd[b].networkHealthy /\ bd[b].runs >= 2

(* Board b has a running board attached to its left connector. *)
HasLeftBoard(b) == b > 1 /\ Running(b - 1)

(* Board b has taken the Root role in the sensing step of its current run: *)
(* it assigned itself position 0 and announced without waiting for a pulse. *)
TookRoot(b) == bd[b].pc = "rootpulse"

(* C11: Root election.  Whatever the relative times at which the boards    *)
(* enter startDiscovery, a board that has a left neighbor never takes the  *)
(* Root role in the sensing step; only the board without a left neighbor   *)
(* does.                                                                   *)
C11_RootElection ==
    \A b \in Boards : TookRoot(b) => ~HasLeftBoard(b)

(* The same for the chains whose boards entered discovery in the same      *)
(* millisecond and in which no board has joined, stopped or been glitched. *)
RootElectionNoSkew ==
    \A b \in Boards : (TookRoot(b) /\ env.skew = 0 /\ NoEvent) => ~HasLeftBoard(b)

(* In this step board b's processRs485 reads the checksum byte of an       *)
(* ANNOUNCE frame and calls handleAnnouncePacket.                          *)
AnnounceHandled(b) ==
    /\ rxq[b] # <<>>
    /\ rxq'[b] = Tail(rxq[b])
    /\ bd[b].rx.state = 4
    /\ bd[b].rx.type = RS485_ANNOUNCE_MSG
    /\ bd[b].rx.len = 5
    /\ Len(bd[b].rx.buf) = 5
    /\ bd[b].rx.checksum = Head(rxq[b])

(* Board b has a position and the budget of its latest run is not used up. *)
WithinBudget(b) ==
    bd[b].myBoardIndex # UNASSIGNED /\ bd[b].runAge < DISCOVERY_MAX_MS

(* C16 as stated: Late announces are collected within the run.  Every      *)
(* ANNOUNCE a board handles after its own assignment and before the        *)
(* discovery budget of its run has elapsed is handled within the run,      *)
(* discoveryDone being false, and is admitted to the registry from which   *)
(* totalBoards is computed.                                                *)
C16_LateAnnouncesWithinBudget ==
    [][\A b \in Boards :
          (AnnounceHandled(b) /\ WithinBudget(b)) =>
              /\ ~bd[b].discoveryDone
              /\ IdFrom(bd[b].rx.buf) \in Ids(bd'[b].nodeList)]_vars

(* Board b leaves the wait loop of startDiscovery in this step. *)
LeavesWaitLoop(b) == bd[b].pc \in {"poll", "dpulse"} /\ bd'[b].pc = "finish"

(* C16, amended: a board that has its position keeps polling the transport *)
(* until more than 100 ms have passed since tStart, not until the budget   *)
(* has elapsed (the budget ends the wait of a board without a position);   *)
(* every ANNOUNCE it handles in the wait loop is admitted to the registry  *)
(* while discoveryDone is false, and every position in the registry at the *)
(* end of the run is counted in totalBoards.                               *)
C16_AnnouncesWithinSettle ==
    [][\A b \in Boards :
          /\ LeavesWaitLoop(b) =>
                \/ bd[b].myBoardIndex # UNASSIGNED
                      /\ bd[b].sinceTStart > DISCOVERY_SETTLE_MS
                \/ bd[b].sinceTStart >= DISCOVERY_MAX_MS
          /\ (AnnounceHandled(b) /\ bd[b].pc = "poll") =>
                /\ ~bd'[b].discoveryDone
                /\ IdFrom(bd[b].rx.buf) \in Ids(bd'[b].nodeList)
          /\ (bd[b].pc = "finish" /\ bd'[b].discoveryDone) =>
                \A i \in 1..Len(bd[b].nodeList) :
                    bd[b].nodeList[i].boardIndex # UNASSIGNED
                        => bd[b].nodeList[i].boardIndex < bd'[b].totalBoards]_vars

(* A board in its wait loop, holding its position, has admitted the        *)
(* ANNOUNCE of a board further down the chain.                             *)
C16_Witness ==
    \E b \in Boards :
        /\ bd[b].pc = "poll"
        /\ ~bd[b].discoveryDone
        /\ bd[b].myBoardIndex # UNASSIGNED
        /\ \E i \in 1..Len(bd[b].nodeList) :
              /\ bd[b].nodeList[i].nodeId # bd[b].myNodeId
              /\ bd[b].nodeList[i].boardIndex > bd[b].myBoardIndex

IsPingFrame(f) == Len(f) = 5 /\ f[2] = 1 /\ f[3] = RS485_PING_MSG

PingFramesFrom(b) ==
    { i \in 1..Len(busNext) : busNext[i].from = b /\ IsPingFrame(busNext[i].frame) }

(* C19: Health-monitor guard.  A board that has transmitted a PING or      *)
(* evaluated a reply window in this millisecond has position 0 and a       *)
(* totalBoards greater than 1: a board at another position, or alone,      *)
(* transmits no PING and changes neither networkHealthy nor the            *)
(* pending-remap flag from the ping cycle.                                 *)
C19_HealthMonitorGuard ==
    \A b \in Boards :
        (PingFramesFrom(b) # {} \/ Evaluated(b)) =>
            (bd[b].myBoardIndex = 0 /\ bd[b].totalBoards > 1)

(* A root has transmitted a PING while a board at another position is in   *)
(* loop().                                                                 *)
C19_Witness ==
    \E b, c \in Boards :
        /\ PingFramesFrom(b) # {}
        /\ Running(c) /\ RunComplete(c) /\ bd[c].myBoardIndex # 0

(* The PING frames board b writes to the bus in this step. *)
PingsSent(b) ==
    { i \in (Len(busNext) + 1)..Len(busNext') :
        busNext'[i].from = b /\ IsPingFrame(busNext'[i].frame) }

(* C20: Single ping cycle in flight.  sendPing is executed only while      *)
(* awaitingPingReplies is false, it transmits one PING carrying a sequence *)
(* number different from the previous cycle's and opens the reply window;  *)
(* and the window is closed by nothing but the evaluation at its expiry,   *)
(* so that between two PINGs of a board there is always such an            *)
(* evaluation.                                                             *)
C20_SinglePingCycle ==
    [][\A b \in Boards :
          /\ PingsSent(b) # {} =>
                /\ ~bd[b].awaitingPingReplies
                /\ bd'[b].awaitingPingReplies
                /\ Cardinality(PingsSent(b)) = 1
                /\ bd'[b].pingSequence # bd[b].pingSequence
                /\ \A i \in PingsSent(b) : busNext'[i].frame[4] = bd'[b].pingSequence
          /\ (bd[b].awaitingPingReplies /\ ~bd'[b].awaitingPingReplies) =>
                /\ bd'[b].ev # "none"
                /\ bd[b].sincePingStart > PING_TIMEOUT_MS]_vars

(* A board's second ping cycle is in flight. *)
C20_Witness ==
    \E b \in Boards :
        /\ bd[b].pingSequence >= 2
        /\ bd[b].awaitingPingReplies
        /\ PingFramesFrom(b) # {}

(* The positions recorded in a registry, and the highest of a set. *)
RecordedPositions(nodeList) == { nodeList[i].boardIndex : i \in 1..Len(nodeList) }

HighestPosition(S) == CHOOSE m \in S : \A x \in S : x <= m

RunPcs == {"sense", "start", "rootpulse", "poll", "dpulse", "finish"}

(* Board b is in startDiscovery. *)
InRun(b) == bd[b].pc \in RunPcs

(* Board b, at the end of its wait loop, executes the rest of              *)
(* startDiscovery in this step.                                            *)
Finishes(b) == bd[b].pc = "finish" /\ bd'[b] # bd[b]

(* Board b, unassigned, tests the loop condition with the budget used up. *)
ExpiresUnassigned(b) ==
    /\ bd[b].pc = "poll" /\ bd[b].wake = 0
    /\ bd[b].myBoardIndex = UNASSIGNED
    /\ bd[b].sinceTStart >= DISCOVERY_MAX_MS
    /\ bd'[b] # bd[b]

(* C21: Timeout fallback.  A board whose discovery budget expires while it *)
(* is unassigned leaves the wait loop, and its run completes as Done with  *)
(* position 0, totalBoards computed from the registry and the note-range   *)
(* base of position 0; it neither halts nor stays unassigned.              *)
C21_TimeoutFallback ==
    [][\A b \in Boards :
          /\ ExpiresUnassigned(b) => bd'[b].pc = "finish"
          /\ (Finishes(b) /\ bd[b].myBoardIndex = UNASSIGNED) =>
                /\ bd'[b].pc \in {"loop", "loopbody"}
                /\ bd'[b].discoveryDone
                /\ ~bd'[b].isRemapping
                /\ bd'[b].myBoardIndex = 0
                /\ bd'[b].totalBoards
                      = HighestPosition(RecordedPositions(bd[b].nodeList) \cup {0}) + 1
                /\ bd'[b].boardBaseNote = GLOBAL_BASE_NOTE]_vars

(* A board that sensed a left neighbor has completed its run by fallback. *)
C21_Witness ==
    \E b \in Boards :
        /\ RunComplete(b) /\ bd[b].fellBack
        /\ bd[b].hasLeftNeighbor
        /\ bd[b].myBoardIndex = 0

(* Board b goes through the health monitor of loop() in this step. *)
LoopPass(b) ==
    /\ bd[b].pc \in {"loop", "loopbody"} /\ bd[b].wake = 0
    /\ bd'[b].pc = "loop" /\ bd'[b].wake = LOOP_DELAY_MS

(* C22: No indefinite blocking.  A discovery run ends when its budget has  *)
(* expired, whatever has arrived during it, and reaches Done with          *)
(* discoveryDone true and isRemapping false; and a ping cycle awaiting     *)
(* replies is returned to idle by the first pass of loop() made after its  *)
(* reply window has expired.                                               *)
C22_NoIndefiniteBlocking ==
    [][\A b \in Boards :
          /\ (bd[b].pc = "poll" /\ bd[b].wake = 0 /\ bd'[b] # bd[b]
                /\ bd[b].sinceTStart >= DISCOVERY_MAX_MS) => bd'[b].pc = "finish"
          /\ Finishes(b) => (bd'[b].discoveryDone /\ ~bd'[b].isRemapping)
          /\ (LoopPass(b) /\ bd[b].awaitingPingReplies
                /\ bd[b].sincePingStart > PING_TIMEOUT_MS)
                => ~bd'[b].awaitingPingReplies]_vars

(* The part of C22 about discovery runs. *)
DiscoveryRunEnds ==
    [][\A b \in Boards :
          /\ (bd[b].pc = "poll" /\ bd[b].wake = 0 /\ bd'[b] # bd[b]
                /\ bd[b].sinceTStart >= DISCOVERY_MAX_MS) => bd'[b].pc = "finish"
          /\ Finishes(b) => (bd'[b].discoveryDone /\ ~bd'[b].isRemapping)]_vars

IsAnnounceFrame(f) == Len(f) = 9 /\ f[2] = 5 /\ f[3] = RS485_ANNOUNCE_MSG

(* The ANNOUNCE frames board b writes to the bus in this step. *)
AnnouncesSent(b) ==
    { i \in (Len(busNext) + 1)..Len(busNext') :
        busNext'[i].from = b /\ IsAnnounceFrame(busNext'[i].frame) }

(* Board b assigns itself in the wait loop in this step. *)
Assigns(b) == bd[b].pc = "poll" /\ bd'[b].pc = "dpulse"

(* C23: Downstream assignment.  A board assigns itself in the wait loop    *)
(* only while unassigned and on a falling edge of its left input; it takes *)
(* the position one greater than the highest recorded in its registry (1   *)
(* when the registry is empty), transmits exactly one ANNOUNCE with that   *)
(* position and starts one pulse on its right output; once it has a        *)
(* position, nothing in the wait loop makes it announce, pulse or change   *)
(* position again.                                                         *)
C23_DownstreamAssignment ==
    [][\A b \in Boards :
          /\ Assigns(b) =>
                /\ bd[b].myBoardIndex = UNASSIGNED
                /\ bd[b].leftPrev = HIGH /\ Left(b) = LOW
                /\ bd'[b].myBoardIndex
                      = HighestPosition(RecordedPositions(bd[b].nodeList) \cup {0}) + 1
                /\ Cardinality(AnnouncesSent(b)) = 1
                /\ \A i \in AnnouncesSent(b) :
                      /\ busNext'[i].frame[8] = bd'[b].myBoardIndex
                      /\ IdFrom(SubSeq(busNext'[i].frame, 4, 7)) = bd[b].myNodeId
                /\ bd[b].pinRight = HIGH /\ bd'[b].pinRight = LOW
          /\ (bd[b].pc \in {"poll", "dpulse"} /\ bd[b].myBoardIndex # UNASSIGNED) =>
                /\ AnnouncesSent(b) = {}
                /\ bd'[b].pinRight = LOW => bd[b].pinRight = LOW
                /\ bd'[b].myBoardIndex = bd[b].myBoardIndex]_vars

(* A board has assigned itself position 2 or more on its neighbor's pulse. *)
C23_Witness ==
    \E b \in Boards :
        /\ bd[b].pc = "dpulse"
        /\ bd[b].hasLeftNeighbor
        /\ bd[b].myBoardIndex >= 2

(* C24: Board count at Done.  When a discovery run completes, totalBoards  *)
(* is one plus the highest position among the board's own position and the *)
(* positions recorded in its registry.                                     *)
C24_BoardCountAtDone ==
    [][\A b \in Boards :
          Finishes(b) =>
              bd'[b].totalBoards
                  = HighestPosition(RecordedPositions(bd'[b].nodeList)
                                      \cup {bd'[b].myBoardIndex}) + 1]_vars

(* A board has completed a run with a position recorded in its registry    *)
(* that is higher than its own.                                            *)
C24_Witness ==
    \E b \in Boards :
        /\ RunComplete(b)
        /\ bd[b].totalBoards > bd[b].myBoardIndex + 1
        /\ bd[b].totalBoards = HighestPosition(RecordedPositions(bd[b].nodeList)) + 1

(* C26: Discovery flags.  While a board is in a discovery run isRemapping  *)
(* is true and networkHealthy and discoveryDone are false, whatever it     *)
(* receives; when the run reaches Done isRemapping is false and            *)
(* discoveryDone and networkHealthy are true.                              *)
C26_DiscoveryFlags ==
    [][\A b \in Boards :
          /\ bd'[b].pc \in RunPcs =>
                (bd'[b].isRemapping /\ ~bd'[b].networkHealthy /\ ~bd'[b].discoveryDone)
          /\ Finishes(b) =>
                (~bd'[b].isRemapping /\ bd'[b].discoveryDone /\ bd'[b].networkHealthy)]_vars

(* A board in its wait loop has handled a REMAP_REQUEST during the run. *)
C26_Witness ==
    \E b \in Boards :
        bd[b].pc = "poll" /\ bd[b].remapRequested /\ Len(bd[b].nodeList) >= 1

(* C29: A ping cycle does not survive a discovery run.  Once a run has     *)
(* started on a board whose ping cycle was awaiting replies, the cycle is  *)
(* no longer awaiting when the run has completed, and the board evaluates  *)
(* no reply window opened by a PING sent before the run.                   *)
C29_PingCycleAbandoned ==
    \A b \in Boards :
        /\ (RunComplete(b) /\ bd[b].stalePing) => ~bd[b].awaitingPingReplies
        /\ Evaluated(b) => ~bd[b].stalePing

(* The second half alone: no evaluation of a window opened before a run. *)
NoStaleEvaluation ==
    \A b \in Boards : Evaluated(b) => ~bd[b].stalePing

SelfRegistered(b) ==
    \E i \in 1..Len(bd[b].nodeList) :
        /\ bd[b].nodeList[i].nodeId = bd[b].myNodeId
        /\ bd[b].nodeList[i].boardIndex = bd[b].myBoardIndex

(* C30: Self-registration.  A board that has completed a discovery run     *)
(* holds in its registry an entry for its own identity with its own        *)
(* position, also when the position came from the budget-expiry fallback.  *)
C30_SelfRegistration ==
    \A b \in Boards : RunComplete(b) => SelfRegistered(b)

(* The same for the runs that did not end by fallback. *)
SelfRegistrationNoFallback ==
    \A b \in Boards : (RunComplete(b) /\ ~bd[b].fellBack) => SelfRegistered(b)

(* Board b has had its transmit-enable asserted during the current         *)
(* millisecond: it has written a frame to the bus.                         *)
Transmitting(b) == \E i \in 1..Len(busNext) : busNext[i].from = b

(* C31: Bus mutual exclusion.  No two boards of the chain have their       *)
(* transmit-enable asserted in the same millisecond; in particular the     *)
(* PING_REPLY frames of two boards answering the root's PING are not       *)
(* written at once.                                                        *)
C31_BusMutualExclusion ==
    \A b, c \in Boards : (Transmitting(b) /\ Transmitting(c)) => b = c

(* The PING_REPLY frames alone, in a chain whose boards all started        *)
(* together.                                                               *)
PingRepliesExclusive ==
    env.skew = 0 =>
        \A i, j \in 1..Len(busNext) :
            (/\ Len(busNext[i].frame) = 9 /\ busNext[i].frame[3] = RS485_PING_REPLY_MSG
             /\ Len(busNext[j].frame) = 9 /\ busNext[j].frame[3] = RS485_PING_REPLY_MSG)
                => busNext[i].from = busNext[j].from

(* The same for the boards of a chain of two, all started together and     *)
(* with no event from the environment.                                     *)
BusExclusiveChainOfTwo ==
    (bd[3].pc = "off" /\ env.skew = 0 /\ ~env.glitched /\ ~env.died /\ ~env.joined)
        => \A b, c \in Boards : (Transmitting(b) /\ Transmitting(c)) => b = c

(* Board b, in the downstream role, has left the wait loop of a run during *)
(* which its left neighbor started a wake pulse.                           *)
PulsedRunEnded(b) ==
    /\ bd[b].pc = "finish"
    /\ bd[b].hasLeftNeighbor
    /\ bd[b].pulsed

(* C32: Wake pulse is never missed.  A downstream board whose left         *)
(* neighbor started its wake pulse while the board was in a discovery run  *)
(* has assigned itself a position when it leaves the wait loop, however    *)
(* the pulse fell relative to the board's sensing, settle delay and first  *)
(* sample of its left input.                                               *)
C32_WakePulseNeverMissed ==
    \A b \in Boards : PulsedRunEnded(b) => bd[b].myBoardIndex # UNASSIGNED

(* The same for the first runs of boards that all started together. *)
WakePulseSeenNoSkew ==
    (env.skew = 0 /\ \A c \in Boards : bd[c].runs <= 1)
        => \A b \in Boards : PulsedRunEnded(b) => bd[b].myBoardIndex # UNASSIGNED

-----------------------------------------------------------------------------
(* Registry claims *)

(* Calls i and i+1 of the log are two calls in a row with the same         *)
(* identity and two different positions.                                   *)
TwiceInARow(i) ==
    /\ i \in 1..(Len(env) - 1)
    /\ env[i].nodeId = env[i + 1].nodeId
    /\ env[i].boardIndex # env[i + 1].boardIndex
    /\ env[i + 1].pre.nodeList = env[i].post.nodeList

(* C13: Idempotent registration.  When registerNode is called twice with   *)
(* the same identity and two different positions, the second call does not *)
(* increase the registry count, the registry holds no second entry for the *)
(* identity, and the entry's position is the one registered last.          *)
C13_IdempotentRegistration ==
    \A i \in 1..MaxCalls :
        TwiceInARow(i) =>
            LET nl == env[i + 1].post.nodeList
            IN  /\ Len(nl) <= Len(env[i].post.nodeList)
                /\ Cardinality(EntriesOf(nl, env[i].nodeId)) <= 1
                /\ \A j \in EntriesOf(nl, env[i].nodeId) :
                      nl[j].boardIndex = env[i + 1].boardIndex

C13_Witness ==
    \E i \in 1..MaxCalls :
        /\ TwiceInARow(i)
        /\ EntriesOf(env[i + 1].post.nodeList, env[i].nodeId) # {}
        /\ EntriesOf(env[i].pre.nodeList, env[i].nodeId) = {}

(* Call c found the registry full and the identity unknown. *)
RefusedCall(c) ==
    /\ Len(c.pre.nodeList) = RS485_MAX_NODES
    /\ c.nodeId \notin Ids(c.pre.nodeList)

(* C14: Registry invariant.  The registry never holds more than 16 entries *)
(* nor two entries with the same identity, and a registerNode call for an  *)
(* unknown identity made when the registry holds 16 entries changes no     *)
(* entry and no count and triggers no remap.                               *)
C14_RegistryInvariant ==
    /\ Len(bd[1].nodeList) <= RS485_MAX_NODES
    /\ Cardinality(Ids(bd[1].nodeList)) = Len(bd[1].nodeList)
    /\ \A i \in 1..Len(env) : RefusedCall(env[i]) => env[i].post = env[i].pre

C14_Witness ==
    \E i \in 1..Len(env) : RefusedCall(env[i]) /\ env[i].pre.myBoardIndex = 0

(* Call c newly admitted its identity. *)
Admitted(c) ==
    /\ c.nodeId \notin Ids(c.pre.nodeList)
    /\ Len(c.pre.nodeList) < RS485_MAX_NODES

RemapCondition(c) == c.pre.discoveryDone /\ Admitted(c) /\ c.pre.myBoardIndex = 0

(* C15: New-identity remap.  registerNode transmits a REMAP_REQUEST, sets  *)
(* the pending-remap flag and clears networkHealthy exactly when discovery *)
(* has completed, the identity was newly admitted and the board's position *)
(* is 0; in every other case it transmits nothing and leaves both flags as *)
(* they were.                                                              *)
C15_NewIdentityRemap ==
    \A i \in 1..Len(env) :
        LET c == env[i]
        IN  IF RemapCondition(c)
            THEN /\ c.post.out = Append(c.pre.out, rs485SendPacket(RS485_REMAP_REQUEST_MSG, <<>>))
                 /\ c.post.remapRequested
                 /\ ~c.post.networkHealthy
            ELSE /\ c.post.out = c.pre.out
                 /\ c.post.remapRequested = c.pre.remapRequested
                 /\ c.post.networkHealthy = c.pre.networkHealthy

C15_Witness ==
    \E i \in 1..Len(env) : RemapCondition(env[i]) /\ env[i].pre.networkHealthy


(* C25: Note-range base.  When a discovery run has completed with the      *)
(* board at a position p of 0..15, boardBaseNote equals the integer        *)
(* GLOBAL_BASE_NOTE + BOARD_NOTE_SPAN * p, without wraparound modulo 256.  *)
C25_NoteRangeBase ==
    (bd[1].discoveryDone /\ bd[1].runs >= 2 /\ bd[1].myBoardIndex < RS485_MAX_NODES)
        => bd[1].boardBaseNote = GLOBAL_BASE_NOTE + BOARD_NOTE_SPAN * bd[1].myBoardIndex

(* The positions whose note-range base fits in eight bits. *)
NoteRangeBaseLow ==
    (bd[1].discoveryDone /\ bd[1].runs >= 2 /\ bd[1].myBoardIndex <= 8)
        => bd[1].boardBaseNote = GLOBAL_BASE_NOTE + BOARD_NOTE_SPAN * bd[1].myBoardIndex


-----------------------------------------------------------------------------
(* Handler claims *)

CallsOf(op) == { i \in 1..Len(env) : env[i].op = op }

(* The reply of call c is one the cycle in progress is waiting for. *)
ReplyMatches(c) ==
    /\ c.pre.awaitingPingReplies
    /\ c.seq = c.pre.pingSequence
    /\ FindNode(c.pre.nodeList, c.id) # 0

(* C27: Ping reply matching.  A PING_REPLY sets the reply flag of the      *)
(* registry slot holding the sender's identity, and no other global of the *)
(* board, when a ping cycle is awaiting replies and the reply carries the  *)
(* current sequence; a reply read while no cycle is awaiting, with another *)
(* sequence, or from an identity that is not in the registry leaves every  *)
(* reply flag as it was.                                                   *)
C27_PingReplyMatching ==
    \A i \in CallsOf("pingReply") :
        LET c == env[i]
            slot == FindNode(c.pre.nodeList, c.id)
        IN  c.post = [c.pre EXCEPT !.pingReceived =
                                       IF ReplyMatches(c)
                                       THEN c.pre.pingReceived \cup {slot}
                                       ELSE c.pre.pingReceived]

(* A cycle was started, and the reply of the other board with the new      *)
(* sequence set its flag.                                                  *)
C27_Witness ==
    /\ Len(env) = 2
    /\ env[1].op = "sendPing"
    /\ env[2].op = "pingReply"
    /\ ReplyMatches(env[2])
    /\ env[2].id # bd[1].myNodeId
    /\ env[2].post.pingReceived # env[2].pre.pingReceived

IsNoteFrameOf(f, id, note, velocity, on) ==
    /\ Len(f) = 11
    /\ f[3] = RS485_NOTE_MSG
    /\ IdFrom(SubSeq(f, 4, 7)) = id
    /\ f[8] = note /\ f[9] = velocity /\ f[10] = on

(* C28: Note fan-out without echo.  A local note-on or note-off transmits  *)
(* exactly one NOTE frame, carrying the board's own identity and the       *)
(* event; a NOTE frame read from another identity invokes exactly one      *)
(* callback, onRemoteNoteOn with the frame's note and velocity when its on *)
(* flag is nonzero and onRemoteNoteOff with the frame's note otherwise; a  *)
(* NOTE frame with the board's own identity invokes none; and reading a    *)
(* NOTE frame transmits nothing.                                           *)
C28_NoteFanOutNoEcho ==
    /\ \A i \in CallsOf("localNoteOn") \cup CallsOf("localNoteOff") :
          LET c == env[i]
          IN  /\ Len(c.post.out) = 1
              /\ IsNoteFrameOf(c.post.out[1], c.pre.myNodeId, c.note, c.velocity, c.on)
    /\ \A i \in CallsOf("note") :
          LET c == env[i]
          IN  /\ c.post.out = <<>>
              /\ c.id = c.pre.myNodeId => c.post.cb = <<>>
              /\ (c.id # c.pre.myNodeId /\ c.on # 0) =>
                    c.post.cb = << NoteCall("onRemoteNoteOn", c.note, c.velocity) >>
              /\ (c.id # c.pre.myNodeId /\ c.on = 0) =>
                    /\ Len(c.post.cb) = 1
                    /\ c.post.cb[1].fn = "onRemoteNoteOff"
                    /\ c.post.cb[1].note = c.note

(* The board has transmitted a note-on and then received the note-on of    *)
(* another board, which invoked one callback.                              *)
C28_Witness ==
    /\ Len(env) = 2
    /\ env[1].op = "localNoteOn"
    /\ env[2].op = "note"
    /\ env[2].id # bd[1].myNodeId
    /\ env[2].on # 0
    /\ Len(env[2].post.cb) = 1

=============================================================================
